---- MODULE Spec2Model ----
(***************************************************************************)
(* State-machine model of the info-orbs API proxies: the caching proxies   *)
(* built on src/src/common.py (parqet, twelvedata, openweather, tempest,   *)
(* visualcrossing, mlbdata, nfldata) and the timezone proxy with its own   *)
(* in-memory cache and DST-driven invalidation.                            *)
(*                                                                         *)
(* One process runs one proxy: Init picks which (variable proxy) and its   *)
(* configuration (cache lifetime, default API key).  A request is handled  *)
(* in two steps, split at the handler's only await: the part before the    *)
(* upstream call (validation, cache key, cache read) and the part after it *)
(* (cache write, response or stale fallback).  The clock may advance       *)
(* between the two.                                                        *)
(***************************************************************************)
EXTENDS Integers, Sequences, FiniteSets, TLC

(* ------------------------------ bounds -------------------------------- *)
\* distinct values of a request's first parameter p (0 stands for "absent")
NumVals == 2
\* distinct values of a request's second parameter q (API key, timeframe)
NumKeys == 1
\* distinct documents the upstream may return for one upstream request
NumVersions == 2
\* the clock runs from 0 to MaxTime (minutes)
MaxTime == 1
\* the configured cache lifetime ranges over 0..MaxCacheLife minutes
MaxCacheLife == 1
\* client addresses 1..NumClients
NumClients == 2
\* the configured requests-per-minute limit ranges over 1..MaxLimit
MaxLimit == 2
\* <PROXY>_MAX_RETRIES of fetch_data ranges over 0..MaxRetries
MaxRetries == 2
\* handlers suspended at their upstream await besides the one that runs next
MaxInflight == 1
\* <PROXY>_RETRY_DELAY of fetch_data ranges over 0..MaxDelay seconds
MaxDelay == 1
NumDivisionTeams == 2
NumZones == 2
MaxPreloadRetries == 2

VARIABLES
    proxy,              \* the proxy this process runs
    CACHE_LIFE_MINUTES, \* <PROXY>_PROXY_CACHE_LIFE; 0 disables caching
    DEFAULT_API_KEY,    \* <PROXY>_DEFAULT_API_KEY; 0 when not configured
    now,                \* datetime.utcnow(), in minutes
    cache,              \* quote_cache / weather_cache / ... / timezone_cache
    cache_expiry,       \* cache_expiry: key -> expiry time
    stored_at,          \* observer: key -> time of the last cache write
    pending,            \* the request suspended at its upstream await, or NoReq
    resp,               \* the last response sent, or NoResp
    keyed,              \* the cache keys computed last, newest first (SpecKey)
    REQUESTS_PER_MINUTE,\* <PROXY>_REQUESTS_PER_MINUTE: the route's limit
    hits,               \* limiter storage: client -> requests in this window
    admission,          \* what the last arriving request met at the limiter
    fetch,              \* the running or last call of fetch_data /
                        \* fetch_with_retry (SpecFetch)
    health,             \* the last answer of the process's GET /health
    inflight,           \* the handlers suspended at their upstream await
                        \* besides pending, oldest first (SpecConc)
    assembly,           \* the sub-calls of the document a sports proxy is
                        \* putting together (SpecAssemble)
    aggregate,          \* the run of the health aggregator (SpecAggregate)
    preload             \* the run of the preload script (SpecPreload)

vars == <<proxy, CACHE_LIFE_MINUTES, DEFAULT_API_KEY, now, cache, cache_expiry,
          stored_at, pending, resp, keyed, REQUESTS_PER_MINUTE, hits,
          admission, fetch, health, inflight, assembly, aggregate, preload>>

config == <<proxy, CACHE_LIFE_MINUTES, DEFAULT_API_KEY>>

\* the variables of the request handlers
cacheVars == <<now, cache, cache_expiry, stored_at, pending, resp>>

\* the variables of the rate limiter
rlVars == <<REQUESTS_PER_MINUTE, hits, admission>>

\* the variables of the programs beside the request handlers: the sports
\* proxies' sub-calls, the health aggregator, the preload script
toolVars == <<assembly, aggregate, preload>>

\* the variables of the health route and of the event loop, and those
sideVars == <<health, inflight, toolVars>>

(* ------------------------------ proxies ------------------------------- *)
TTLProxies == {"parqet", "twelvedata", "openweather", "tempest",
               "visualcrossing", "mlbdata", "nfldata"}
Proxies == TTLProxies \cup {"timezone"}

\* proxies whose requests carry an API key with a configurable default
ApiKeyProxies == {"twelvedata", "openweather", "tempest", "visualcrossing"}
\* proxies whose route accepts POST as well as GET
PostProxies == {"parqet", "tempest", "timezone"}
\* proxies whose transform_data rejects an empty document with 502
EmptyCheckProxies == {"twelvedata", "openweather", "mlbdata", "nfldata"}
\* proxies that assemble their document themselves (it is never empty)
AssemblingProxies == {"mlbdata", "nfldata"}

(* --------------------------- dictionaries ----------------------------- *)
\* A Python dict is a sequence of <<name, value>> pairs in insertion order.
\* Alphabetical rank of the parameter names, as json.dumps(sort_keys=True)
\* orders them.
NameRank(n) ==
    CASE n = "apikey"     -> 1
      [] n = "api_key"    -> 2
      [] n = "appid"      -> 3
      [] n = "asOfDate"   -> 4
      [] n = "force"      -> 5
      [] n = "id"         -> 6
      [] n = "key"        -> 7
      [] n = "lat"        -> 8
      [] n = "season"     -> 9
      [] n = "station_id" -> 10
      [] n = "symbol"     -> 11
      [] n = "teamId"     -> 12
      [] n = "timeframe"  -> 13
      [] OTHER            -> 14

\* dict.pop(name, None)
Pop(d, name) == SelectSeq(d, LAMBDA e : e[1] # name)

\* dict.get(name): the value, 0 when the name is absent
DictGet(d, name) ==
    LET found == SelectSeq(d, LAMBDA e : e[1] = name)
    IN  IF found = <<>> THEN 0 ELSE found[1][2]

RECURSIVE Insert(_, _)
Insert(e, s) ==
    IF s = <<>> THEN <<e>>
    ELSE IF NameRank(e[1]) <= NameRank(s[1][1]) THEN <<e>> \o s
    ELSE <<s[1]>> \o Insert(e, Tail(s))

RECURSIVE SortKeys(_)
\* the entries of d ordered by name: what json.dumps(d, sort_keys=True) writes
SortKeys(d) == IF d = <<>> THEN <<>> ELSE Insert(d[1], SortKeys(Tail(d)))

(* ------------------------------ requests ------------------------------ *)
\* A request: its method, its two semantic parameters p and q (0: absent),
\* the force value of the query string, the force field of a JSON body
\* (0: absent, 1: true, 2: false) and the order in which a body lists its
\* fields (1: p, q, force; 2: force, q, p).
\*   proxy           p            q
\*   twelvedata      symbol       apikey
\*   openweather     lat (lon)    appid
\*   tempest         station_id   api_key
\*   visualcrossing  location/timeframe path segments   key
\*   parqet          id           timeframe
\*   mlbdata         teamName     -
\*   nfldata         teamName     - (asOfDate is left out: '')
\*   timezone        timeZone     -
\* The remaining parameters (units, language, ...) are held at one value.
ForceStrs == {"", "true", "TRUE", "false"}

HasQ(px) == px \notin {"mlbdata", "nfldata", "timezone"}

QVals(px) == IF HasQ(px) THEN 0..NumKeys ELSE {0}

GetRequests(px) ==
    [method : {"GET"}, p : 0..NumVals, q : QVals(px), force : ForceStrs,
     bforce : {0}, order : {1}]

PostRequests(px) ==
    [method : {"POST"}, p : 0..NumVals, q : QVals(px), force : {"", "true"},
     bforce : 0..2, order : 1..2]

AllRequests(px) ==
    GetRequests(px) \cup (IF px \in PostProxies THEN PostRequests(px) ELSE {})

\* The requests the state machine is driven with: a body's field order
\* decides nothing but the order of the dict handed to get_cache_key, so
\* the machine takes bodies in one order.
Requests(px) == {r \in AllRequests(px) : r.order = 1}

\* str.lower()
Lower(s) == IF s = "TRUE" THEN "true" ELSE s

\* force_refresh = request.query_params.get("force", "").lower() == "true";
\* the timezone proxy reads the flag of a POST from the body instead
ForceRefresh(px, r) ==
    IF px = "timezone" /\ r.method = "POST"
    THEN r.bforce = 1
    ELSE Lower(r.force) = "true"

\* the API key in effect: the request's, else the configured default
EffKey(px, r, dflt) ==
    IF px \in ApiKeyProxies /\ r.q = 0 THEN dflt ELSE r.q

\* the season both sports proxies derive from the date (one season spans
\* the modelled time); nfldata takes it from asOfDate when that is given
CurrentSeason == 1

Season(px, r) ==
    IF px = "nfldata" /\ r.q # 0 THEN r.q ELSE CurrentSeason

\* the JSON body of a POST as a dict, in the order the client wrote it
BodyDict(pname, qname, r) ==
    LET pe == IF r.p = 0 THEN <<>> ELSE << <<pname, r.p>> >>
        qe == IF r.q = 0 THEN <<>> ELSE << <<qname, r.q>> >>
        fe == IF r.bforce = 0 THEN <<>> ELSE << <<"force", r.bforce>> >>
    IN  IF r.order = 1 THEN pe \o qe \o fe ELSE fe \o qe \o pe

\* request_data["api_key"] = DEFAULT when the body has none
SetDefault(d, name, dflt) ==
    IF DictGet(d, name) = 0 THEN Pop(d, name) \o << <<name, dflt>> >> ELSE d

\* the dict each handler passes to get_cache_key
ParamsDictWithoutKey(px, r, dflt) == << <<"symbol", r.p>> >>

ParamsDict(px, r, dflt) ==
    CASE px = "twelvedata" ->
           << <<"symbol", r.p>>, <<"apikey", EffKey(px, r, dflt)>> >>
      [] px = "openweather" ->
           << <<"lat", r.p>>, <<"appid", EffKey(px, r, dflt)>> >>
      [] px = "tempest" ->
           IF r.method = "GET"
           THEN << <<"station_id", r.p>>, <<"api_key", EffKey(px, r, dflt)>> >>
           ELSE SetDefault(BodyDict("station_id", "api_key", r), "api_key", dflt)
      [] px = "visualcrossing" ->
           << <<"key", EffKey(px, r, dflt)>> >>
      [] px = "parqet" ->
           << <<"id", r.p>>, <<"timeframe", r.q>> >>
      [] px = "mlbdata" ->
           << <<"teamId", r.p>>, <<"season", Season(px, r)>> >>
      [] px = "nfldata" ->
           << <<"teamId", r.p>>, <<"season", Season(px, r)>>,
              <<"asOfDate", r.q>> >>
      [] OTHER -> << <<"timeZone", r.p>> >>

\* get_cache_key with the flag left in the dumped dict
get_cache_key_keeps_force(px, params) == SortKeys(params)

\* get_cache_key: copy, drop 'force', json.dumps(..., sort_keys=True);
\* parqet dumps the validated model, which has no force field
get_cache_key(px, params) ==
    IF px = "parqet" THEN SortKeys(params) ELSE SortKeys(Pop(params, "force"))

\* the cache key of a request; the timezone proxy keys by the zone name
\* itself (written here as the one-entry dict of that name)
CacheKey(px, r, dflt) ==
    IF px = "timezone" THEN ParamsDict(px, r, dflt)
    ELSE get_cache_key(px, ParamsDict(px, r, dflt))

\* what the upstream request is built from: the parameters that decide the
\* upstream's answer
UpstreamParams(px, r, dflt) ==
    IF px \in AssemblingProxies \cup {"timezone"} THEN <<r.p, r.q>>
    ELSE <<r.p, EffKey(px, r, dflt)>>

\* a tempest POST whose body has no station_id passes the parameter checks
\* and raises KeyError at request_data['station_id'] before the upstream
\* call
KeyError(px, r) == px = "tempest" /\ r.method = "POST" /\ r.p = 0

\* The status with which the handler rejects a request before any cache
\* access, 0 when it does not.
Rejects(px, r, dflt) ==
    CASE px \in {"twelvedata", "openweather", "visualcrossing"} ->
           IF r.p = 0 THEN 400
           ELSE IF r.q = 0 /\ dflt = 0 THEN 400 ELSE 0
      [] px = "tempest" ->
           IF r.method = "GET" /\ r.p = 0 THEN 400
           ELSE IF r.q = 0 /\ dflt = 0 THEN 400 ELSE 0
      [] px = "parqet" ->
           IF r.p = 0 \/ r.q = 0
           THEN (IF r.method = "GET" THEN 400 ELSE 500)
           ELSE 0
      [] px \in {"mlbdata", "nfldata"} ->
           IF r.p = 0 THEN 400 ELSE 0
      [] OTHER ->
           IF r.p = 0 THEN (IF r.method = "GET" THEN 400 ELSE 500) ELSE 0


(* ----------------------------- documents ------------------------------ *)
\* The DST part of a timezone document: hasDayLightSaving,
\* isDayLightSavingActive and dstInterval's dstStart/dstEnd as instants of
\* the model clock; BadTime is a value parse_iso_datetime cannot turn into
\* a UTC instant (the comparison with the clock raises).
BadTime == -1

NoDst == [has |-> FALSE, active |-> FALSE, start |-> 0, end |-> 0]

TransTimes == 1..(MaxTime + 1)

DstChoices ==
    {NoDst}
    \cup {[has |-> TRUE, active |-> a, start |-> t[1], end |-> t[2]] :
             a \in BOOLEAN,
             t \in {u \in TransTimes \X TransTimes : u[1] # u[2]}}
    \cup {[has |-> TRUE, active |-> a, start |-> BadTime, end |-> BadTime] :
             a \in {TRUE}}

\* A document of the upstream: src names the upstream request it answers,
\* ver tells apart the documents the upstream may give for that request.
Doc(u, v, d) == [src |-> u, ver |-> v, dst |-> d]

\* the empty JSON document {}
Empty == [src |-> <<0, 0>>, ver |-> 0, dst |-> NoDst]

\* no document at all (None, or a response without one)
NoDoc == [src |-> <<0, 0>>, ver |-> -1, dst |-> NoDst]

\* Python truthiness of cache.get(key): None and {} are falsy
Truthy(d) == d # NoDoc /\ d # Empty

\* the statuses with which fetch_data / fetch_with_retry raise HTTPException
FailStatuses == {404, 502}

\* What the upstream call of a request with upstream parameters u can end
\* in: a document, an empty document, or an HTTPException.
FetchOutcomes(px, u) ==
    {[kind |-> "ok", doc |-> Doc(u, v, NoDst), status |-> 200] :
        v \in 1..NumVersions}
    \cup (IF px = "timezone"
          THEN {[kind |-> "ok", doc |-> Doc(u, 1, d), status |-> 200] :
                   d \in DstChoices}
          ELSE {})
    \cup (IF px \in AssemblingProxies THEN {}
          ELSE {[kind |-> "empty", doc |-> Empty, status |-> 200]})
    \cup {[kind |-> "fail", doc |-> NoDoc, status |-> s] : s \in FailStatuses}

(* ------------------------------- cache -------------------------------- *)
\* dict.get(key, default)
Get(f, k, default) == IF k \in DOMAIN f THEN f[k] ELSE default

\* dict[key] = value
Put(f, k, v) == [x \in DOMAIN f \cup {k} |-> IF x = k THEN v ELSE f[x]]

\* datetime.min
DatetimeMin == -1

\* lines 77-81 of twelvedata-proxy.py (the same in the six other proxies):
\* the entry is served when the stored document is truthy and its expiry
\* lies after the clock
cache_valid(k) == Get(cache_expiry, k, DatetimeMin) > now

\* the cache switch with 0 taken for a lifetime
CacheEnabledAtZero == CACHE_LIFE_MINUTES >= 0

\* if CACHE_LIFE_MINUTES > 0
CacheEnabled == CACHE_LIFE_MINUTES > 0

CacheHit(k, force) ==
    /\ CacheEnabled
    /\ ~force
    /\ Truthy(Get(cache, k, NoDoc))
    /\ cache_valid(k)

\* transform_data raises HTTPException(502) on a falsy document in four of
\* the proxies
TransformRaises(px, d) == px \in EmptyCheckProxies /\ ~Truthy(d)

\* the transition picked the wrong way round
ChangeTimeSwapped(d) == IF d.dst.active THEN d.dst.start ELSE d.dst.end

\* should_bypass_cache of the timezone proxy
ChangeTime(d) == IF d.dst.active THEN d.dst.end ELSE d.dst.start

should_bypass_cache(d) ==
    IF ~d.dst.has THEN FALSE
    ELSE IF ChangeTime(d) = BadTime THEN FALSE
    ELSE now >= ChangeTime(d)

(* ----------------------------- responses ------------------------------ *)
NoReq == [kind |-> "none", key |-> <<>>, force |-> FALSE, up |-> <<0, 0>>]

NoResp ==
    [kind |-> "none", status |-> 0, cached |-> FALSE, doc |-> NoDoc,
     key |-> <<>>, force |-> FALSE, up |-> <<0, 0>>, calls |-> 0,
     outcome |-> "none"]

\* A response: kind tells the path that produced it ("reject", "hit",
\* "fresh", "stale", "error"), status the HTTP status, cached the
\* cachedResponse flag, doc the document it carries; key, force and up
\* repeat the request's cache key, force flag and upstream parameters;
\* calls counts the upstream calls made for it and outcome is how the
\* upstream call ended ("none" when there was none).
Response(kind, status, cached, doc, k, f, u, calls, outcome) ==
    [kind |-> kind, status |-> status, cached |-> cached, doc |-> doc,
     key |-> k, force |-> f, up |-> u, calls |-> calls, outcome |-> outcome]

\* a request suspended at its upstream call
Pending(k, f, u) == [kind |-> "req", key |-> k, force |-> f, up |-> u]


(* ---------------------------- rate limiter ---------------------------- *)
Clients == 1..NumClients

\* retry_after = 60 of rate_limit_handler
DefaultRetryAfter == 60

NoAdmission ==
    [client |-> 0, before |-> 0, status |-> 0, retry_after |-> 0,
     error |-> "none"]

\* What the limiter and the RateLimitExceeded handler make of an arriving
\* request: client is its address, before the number of requests the
\* limiter had counted for that address in the window, status the HTTP
\* status of the limiter's answer (0: the request is let through to the
\* route), retry_after the value of the Retry-After header (0: no header)
\* and error the body's error field.
Admission(c, before, status, retry_after, error) ==
    [client |-> c, before |-> before, status |-> status,
     retry_after |-> retry_after, error |-> error]

\* exc.detail of RateLimitExceeded as the handlers look at it: a string, or
\* an object with a retry_after attribute (its value)
Details == {[str |-> TRUE, retry_after |-> 0],
            [str |-> FALSE, retry_after |-> 1]}

\* rate_limit_handler of create_app: 429 with Retry-After, 60 unless the
\* detail carries a value
rate_limit_handler(c, before, d) ==
    Admission(c, before, 429,
              IF d.str THEN DefaultRetryAfter ELSE d.retry_after,
              "rate_limit_exceeded")

\* rate_limit_exceeded_handler of the timezone proxy: reads
\* exc.detail.retry_after (AttributeError on a string: the handler raises
\* and the request ends as 500) and sets no header
rate_limit_exceeded_handler(c, before, d) ==
    IF d.str THEN Admission(c, before, 500, 0, "none")
    ELSE Admission(c, before, 429, 0, "rate_limit_exceeded")

\* A request of client c arrives at the route: the limiter counts it when
\* the client has budget left in the window, else raises RateLimitExceeded
\* with detail d.
Limit(c, d) ==
    /\ IF hits[c] < REQUESTS_PER_MINUTE
       THEN /\ hits' = [hits EXCEPT ![c] = @ + 1]
            /\ admission' = Admission(c, hits[c], 0, 0, "none")
       ELSE /\ hits' = hits
            /\ admission' =
                 IF proxy = "timezone"
                 THEN rate_limit_exceeded_handler(c, hits[c], d)
                 ELSE rate_limit_handler(c, hits[c], d)
    /\ UNCHANGED REQUESTS_PER_MINUTE

\* a request of client c arrives at a route of which only the limiter is
\* looked at
Arrive(c, d) ==
    /\ Limit(c, d)
    /\ UNCHANGED <<config, cacheVars, keyed, fetch, sideVars>>

\* the minute ends: the fixed window of every client starts anew
WindowReset ==
    /\ hits' = [c \in Clients |-> 0]
    /\ UNCHANGED <<config, cacheVars, keyed, REQUESTS_PER_MINUTE, admission,
                   fetch, sideVars>>

(* --------------------------- the retry loops -------------------------- *)
\* MAX_RETRIES and RETRY_DELAY (seconds) of the timezone proxy
MAX_RETRIES == 1
RETRY_DELAY == 3

\* What one upstream invocation ends in: a response with a status code
\* (200, or a code raise_for_status turns into HTTPStatusError), or
\* httpx.RequestError (network error, timeout), written RequestError.  A
\* 2xx response whose body is not JSON is written UndecodableBody:
\* response.json() raises on it.
RequestError == 0
UndecodableBody == 1
ErrorStatuses == {404, 429, 502, 503}
Answers == {200, RequestError, UndecodableBody} \cup ErrorStatuses

\* The upstream as a stub: the answers it gives to the successive
\* invocations of one call.
Scripts == [1..(MaxRetries + 1) -> Answers]

\* The Retry-After header of a failed response, in seconds: absent (0), or
\* a value that differs from every configured delay.
RetryAfters == {0, MaxDelay + 1}

\* fn, m, retry_delay and script are fixed when the call starts; attempt is
\* the loop variable, calls counts the upstream invocations, sleeps the
\* calls of asyncio.sleep; retry_after and waited are the Retry-After
\* header of the failure retried last and the seconds slept after it
NoFetch ==
    [fn |-> "none", m |-> 0, retry_delay |-> 0, script |-> <<>>,
     attempt |-> 0, calls |-> 0, sleeps |-> 0, retry_after |-> 0,
     waited |-> 0, state |-> "idle", status |-> 0]

\* the status codes on which the loops go round again
RetriedStatusWith404(a) == a \in {404, 502}

RetriedStatus(a) == a = 502

\* "attempt < max_retries": another iteration of the loop is left
RetriesLeftShort(max_retries, attempt) == attempt < max_retries - 1

RetriesLeft(max_retries, attempt) == attempt < max_retries

\* the status code of the HTTPException raised for answer a
RaisedStatusAlways502(a) == 502

RaisedStatus(a) == IF a = RequestError THEN 502 ELSE a

\* the loop's "continue" after a failure whose response carried the header
\* ra, after asyncio.sleep(secs) when slept
ContinueSameAttempt(slept, secs, ra) ==
    fetch' = [fetch EXCEPT !.calls = @ + 1,
                           !.sleeps = IF slept THEN @ + 1 ELSE @,
                           !.retry_after = ra,
                           !.waited = IF slept THEN secs ELSE 0]

Continue(slept, secs, ra) ==
    fetch' = [fetch EXCEPT !.attempt = @ + 1, !.calls = @ + 1,
                           !.sleeps = IF slept THEN @ + 1 ELSE @,
                           !.retry_after = ra,
                           !.waited = IF slept THEN secs ELSE 0]

\* return response.json()
ReturnJson ==
    fetch' = [fetch EXCEPT !.calls = @ + 1, !.state = "returned",
                           !.status = 200]

\* raise HTTPException(status_code=...)
RaiseHTTPException(a) ==
    fetch' = [fetch EXCEPT !.calls = @ + 1, !.state = "raised",
                           !.status = RaisedStatus(a)]

\* response.json() raises json.JSONDecodeError, a ValueError that neither
\* loop catches: the call ends with an exception that is no HTTPException
RaiseValueError ==
    fetch' = [fetch EXCEPT !.calls = @ + 1, !.state = "error"]

\* a call of fetch_data (the TTL proxies) or of fetch_with_retry (the
\* timezone proxy) begins with the upstream's answers laid out; fetch_data reads
\* <PROXY>_MAX_RETRIES (a negative value, which leaves the loop empty, is
\* outside these bounds) and <PROXY>_RETRY_DELAY.  One call is followed from
\* its start to its return or raise.
FetchStart(m, delay, script) ==
    /\ fetch.state = "idle"
    /\ proxy = "timezone" => (m = MAX_RETRIES /\ delay = 0)
    /\ fetch' = [fn |-> IF proxy = "timezone" THEN "fetch_with_retry"
                        ELSE "fetch_data",
                 m |-> m,
                 retry_delay |-> IF proxy = "timezone" THEN RETRY_DELAY
                                 ELSE delay,
                 script |-> script, attempt |-> 0, calls |-> 0,
                 sleeps |-> 0, retry_after |-> 0, waited |-> 0,
                 state |-> "running", status |-> 0]
    /\ UNCHANGED <<config, cacheVars, keyed, rlVars, sideVars>>

\* one iteration of the loop of fetch_data: one upstream invocation and
\* what the try block and its except clauses make of the answer; ra is the
\* Retry-After header of the answer when it is an error response (the code
\* does not read it)
fetch_data(ra) ==
    /\ fetch.fn = "fetch_data"
    /\ fetch.state = "running"
    /\ LET a == fetch.script[fetch.attempt + 1]
           max_retries == fetch.m
           retry_delay == fetch.retry_delay
       IN  IF a = 200 THEN ra = 0 /\ ReturnJson
           ELSE IF a = UndecodableBody THEN ra = 0 /\ RaiseValueError
           ELSE IF a # RequestError
           THEN IF /\ max_retries > 0
                   /\ RetriedStatus(a)
                   /\ RetriesLeft(max_retries, fetch.attempt)
                THEN Continue(TRUE, retry_delay, ra)
                ELSE RaiseHTTPException(a)
           ELSE /\ ra = 0
                /\ IF max_retries > 0 /\ RetriesLeft(max_retries, fetch.attempt)
                   THEN Continue(TRUE, retry_delay, 0)
                   ELSE RaiseHTTPException(a)
    /\ UNCHANGED <<config, cacheVars, keyed, rlVars, sideVars>>

\* one iteration of the loop of fetch_with_retry: a 502 with a retry left
\* sleeps RETRY_DELAY and continues, a network error with a retry left falls
\* through to the next iteration without sleeping
fetch_with_retry(ra) ==
    /\ fetch.fn = "fetch_with_retry"
    /\ fetch.state = "running"
    /\ LET a == fetch.script[fetch.attempt + 1]
       IN  IF a = RequestError
           THEN /\ ra = 0
                /\ IF fetch.attempt >= MAX_RETRIES
                   THEN RaiseHTTPException(a)
                   ELSE Continue(FALSE, 0, 0)
           ELSE IF RetriedStatus(a) /\ RetriesLeft(MAX_RETRIES, fetch.attempt)
           THEN Continue(TRUE, RETRY_DELAY, ra)
           ELSE IF a = 200 THEN ra = 0 /\ ReturnJson
           ELSE IF a = UndecodableBody THEN ra = 0 /\ RaiseValueError
           ELSE RaiseHTTPException(a)
    /\ UNCHANGED <<config, cacheVars, keyed, rlVars, sideVars>>

(* --------------------------- the health route ------------------------- *)
\* the proxies whose module defines GET /health
HealthProxies == {"twelvedata", "openweather", "visualcrossing", "mlbdata"}

NoHealth == [status |-> 0, body |-> "none"]

\* GET /health of the proxy's process: the route of the module where it
\* has one, the framework's 404 where it has none.  The route reads neither
\* the cache nor the upstream.
Health ==
    /\ health' = IF proxy \in HealthProxies
                 THEN [status |-> 200, body |-> "OK"]
                 ELSE [status |-> 404, body |-> "Not Found"]
    /\ UNCHANGED <<config, cacheVars, keyed, rlVars, fetch, inflight, toolVars>>

(* ------------------- the sports proxies' sub-calls -------------------- *)
\* The upstream calls proxy_endpoint of a sports proxy awaits, in order, by
\* the helper that makes them.  nfldata's get_standings calls
\* get_team_details again and then get_division_teams, which fetches every
\* team of the division.
SubCalls(px) ==
    IF px = "mlbdata"
    THEN <<"get_team_details", "get_standings", "get_schedule">>
    ELSE <<"get_team_details", "get_team_details">>
         \o [i \in 1..NumDivisionTeams |-> "get_division_teams"]
         \o <<"get_schedule">>

\* get_division_teams wraps each fetch in try / except Exception: continue
Swallowed(sub) == sub = "get_division_teams"

\* step counts the sub-calls that are over, failed holds those of them
\* that failed
NoAssembly == [step |-> 0, failed |-> {}]

\* the result dict put together from the sub-calls, of which those in
\* failed gave nothing
Assembled(u, v, failed) ==
    [src |-> u, ver |-> v, dst |-> NoDst, failed |-> failed]

(* ------------------------ the health aggregator ----------------------- *)
\* the keys of PROXY_HEALTH_ENDPOINTS, in the order of the dict
PROXY_HEALTH_ENDPOINTS ==
    <<"timezone", "visualcrossing", "twelvedata", "tempest", "openweather",
      "parqet", "zoneinfo", "mlbdata">>

\* What client.get(health_url) ends in: a response with a status code
\* (the health routes answer with JSON), or httpx.RequestError.
HealthAnswers == {200, 404, 503, RequestError}

\* state: "idle", "polling" (inside the for loop) or "done"; answers holds
\* what the checks made so far ended in, results is the dict of the same
\* name, status the status code of the aggregator's response
NoAggregate ==
    [state |-> "idle", answers |-> <<>>, results |-> <<>>, status |-> 0]

\* the "status" of the entry one check leaves in results
CheckStatus(a) == IF a = 200 THEN "OK" ELSE "ERROR"

\* the status code of the response built from results
AggregateStatusOfLast(results) ==
    IF results # <<>> /\ results[Len(results)][2] = "ERROR" THEN 503 ELSE 200

AggregateStatus(results) ==
    IF \E i \in 1..Len(results) : results[i][2] = "ERROR" THEN 503 ELSE 200

\* GET /health arrives at the aggregator: results = {}
HealthStart ==
    /\ aggregate.state \in {"idle", "done"}
    /\ aggregate' = [NoAggregate EXCEPT !.state = "polling"]
    /\ UNCHANGED <<config, cacheVars, keyed, rlVars, fetch, health, inflight,
                   assembly, preload>>

\* one iteration of the for loop: the check of the next proxy ends in a
\* and its entry is written, in the try block or in the except clause
Poll(a) ==
    /\ aggregate.state = "polling"
    /\ Len(aggregate.answers) < Len(PROXY_HEALTH_ENDPOINTS)
    /\ LET proxy_name ==
               PROXY_HEALTH_ENDPOINTS[Len(aggregate.answers) + 1]
       IN  aggregate' =
               [aggregate EXCEPT
                   !.answers = Append(@, a),
                   !.results = Pop(@, proxy_name)
                               \o << <<proxy_name, CheckStatus(a)>> >>]
    /\ UNCHANGED <<config, cacheVars, keyed, rlVars, fetch, health, inflight,
                   assembly, preload>>

\* the loop is over: raise HTTPException(503) or return the results
HealthRespond ==
    /\ aggregate.state = "polling"
    /\ Len(aggregate.answers) = Len(PROXY_HEALTH_ENDPOINTS)
    /\ aggregate' =
           [aggregate EXCEPT !.state = "done",
                             !.status = AggregateStatus(aggregate.results)]
    /\ UNCHANGED <<config, cacheVars, keyed, rlVars, fetch, health, inflight,
                   assembly, preload>>

(* -------------------------- the preload script ------------------------ *)
\* TOP_TIMEZONES, by position
Timezones == 1..NumZones

\* What client.get(url) of fetch_timezone ends in: a response with a
\* status code, or httpx.RequestError.
PreloadAnswers == {200, 429, 503, RequestError}

\* a row of timezone_cache: none, or the data of a fetch (a version); the
\* rows an earlier run left hold version 1
NoRow == 0

\* max_retries is MAX_RETRIES of the script (TIMEZONE_MAX_RETRIES); i is
\* the position of main's outer loop, attempt the variable of its inner
\* loop, tries the attempt number of the retry decorator inside the running
\* call of fetch_timezone; phase tells whether process_timezone is at its
\* fetch or at its save, data is what fetch_timezone returned; rows is the
\* table and before its content when the script started; requests and
\* counted count, per timezone, the upstream requests and the increments
\* of success_count
NoPreload ==
    [state |-> "idle", max_retries |-> 0, i |-> 0, attempt |-> 0,
     tries |-> 0, phase |-> "none", data |-> 0, rows |-> <<>>,
     before |-> <<>>, requests |-> <<>>, counted |-> <<>>,
     success_count |-> 0]

\* stop_after_attempt(n), asked after the attempt of the given number
stop_after_attempt(n, attempt_number) == attempt_number >= n

\* save_to_cache: INSERT OR REPLACE inside "with sqlite3.connect(...)",
\* which commits when the block ends and rolls back when sqlite3.Error
\* leaves it
save_to_cache_without_rollback(rows, tz, data, ok) ==
    [rows EXCEPT ![tz] = data]

save_to_cache(rows, tz, data, ok) ==
    IF ok THEN [rows EXCEPT ![tz] = data] ELSE rows

\* main goes on to the next timezone, or leaves the outer loop
NextTimezone(p) ==
    IF p.i < NumZones
    THEN [p EXCEPT !.i = @ + 1, !.attempt = 1, !.tries = 0,
                   !.phase = "fetch", !.data = 0]
    ELSE [p EXCEPT !.state = "done", !.phase = "none", !.data = 0]

\* process_timezone has returned False: the inner loop of main calls it
\* again while attempts are left
ReturnFalse(p) ==
    IF p.attempt < p.max_retries
    THEN [p EXCEPT !.attempt = @ + 1, !.tries = 0, !.phase = "fetch",
                   !.data = 0]
    ELSE NextTimezone(p)

\* the script starts with MAX_RETRIES = m and the table as rows0
PreloadStart(m, rows0) ==
    /\ preload.state = "idle"
    /\ preload' = [state |-> "running", max_retries |-> m, i |-> 1,
                   attempt |-> 1, tries |-> 0, phase |-> "fetch",
                   data |-> 0, rows |-> rows0, before |-> rows0,
                   requests |-> [tz \in Timezones |-> 0],
                   counted |-> [tz \in Timezones |-> 0],
                   success_count |-> 0]
    /\ UNCHANGED <<config, cacheVars, keyed, rlVars, fetch, health, inflight,
                   assembly, aggregate>>

\* one upstream request of fetch_timezone ends in a (with data v when it
\* is a 200): the call returns, or raises and is made again by the retry
\* decorator, or raises for good and process_timezone returns False
fetch_timezone(a, v) ==
    /\ preload.state = "running"
    /\ preload.phase = "fetch"
    /\ a # 200 => v = 1
    /\ LET tz == preload.i
           p1 == [preload EXCEPT !.requests[tz] = @ + 1, !.tries = @ + 1]
       IN  preload' =
             IF a = 200 THEN [p1 EXCEPT !.phase = "save", !.data = v]
             ELSE IF stop_after_attempt(p1.max_retries, p1.tries)
             THEN ReturnFalse(p1)
             ELSE p1
    /\ UNCHANGED <<config, cacheVars, keyed, rlVars, fetch, health, inflight,
                   assembly, aggregate>>

\* process_timezone from the return of fetch_timezone: the save, and what
\* main does with the value returned
process_timezone(ok) ==
    /\ preload.state = "running"
    /\ preload.phase = "save"
    /\ LET tz == preload.i
           p1 == [preload EXCEPT
                     !.rows = save_to_cache(@, tz, preload.data, ok)]
       IN  preload' =
             IF ok
             THEN NextTimezone([p1 EXCEPT !.success_count = @ + 1,
                                          !.counted[tz] = @ + 1])
             ELSE ReturnFalse(p1)
    /\ UNCHANGED <<config, cacheVars, keyed, rlVars, fetch, health, inflight,
                   assembly, aggregate>>

(* ------------------------------ actions ------------------------------- *)
\* proxy_endpoint of the seven TTL proxies, up to its upstream await:
\* parameter checks, cache key, cache read.  A tempest POST without
\* station_id passes the checks and fails on request_data['station_id']
\* after the cache read.
ProxyLookup(r) ==
    /\ proxy \in TTLProxies
    /\ pending = NoReq
    /\ LET rej == Rejects(proxy, r, DEFAULT_API_KEY)
           k   == CacheKey(proxy, r, DEFAULT_API_KEY)
           f   == ForceRefresh(proxy, r)
           u   == UpstreamParams(proxy, r, DEFAULT_API_KEY)
           keyError == KeyError(proxy, r)
       IN  IF rej # 0
           THEN /\ resp' = Response("reject", rej, FALSE, NoDoc, <<>>, f, u,
                                    0, "none")
                /\ UNCHANGED pending
           ELSE IF keyError
           THEN /\ resp' = Response("crash", 500, FALSE, NoDoc, k, f, u, 0,
                                    "none")
                /\ UNCHANGED pending
           ELSE IF CacheHit(k, f)
           THEN /\ resp' = Response("hit", 200, TRUE, cache[k], k, f, u, 0,
                                    "none")
                /\ UNCHANGED pending
           ELSE /\ resp' = NoResp
                /\ pending' = Pending(k, f, u)
    /\ UNCHANGED <<config, now, cache, cache_expiry, stored_at, keyed, fetch,
                   sideVars>>

\* an admitted request r reaches proxy_endpoint
ProxyReceive(r) == ProxyLookup(r) /\ UNCHANGED rlVars

\* cache_expiry[cache_key] = datetime.utcnow() + timedelta(minutes=...),
\* the statement after the write of the payload; in WriteExpiryLater it has
\* not run yet when the handler is next seen
WriteExpiryLater(k) == cache_expiry

WriteExpiry(k) == Put(cache_expiry, k, now + CACHE_LIFE_MINUTES)

\* proxy_endpoint from the return of its upstream call: cache write,
\* transform_data, and the except branch with the stale fallback.
ProxyFinish(o) ==
    /\ proxy \in TTLProxies
    /\ pending # NoReq
    /\ LET k == pending.key
           f == pending.force
           u == pending.up
           written == o.kind # "fail" /\ CacheEnabled
           cache1 == IF written THEN Put(cache, k, o.doc) ELSE cache
           raised == IF o.kind = "fail" THEN o.status
                     ELSE IF TransformRaises(proxy, o.doc) THEN 502 ELSE 0
           fallback == /\ raised # 0
                       /\ CacheEnabled
                       /\ k \in DOMAIN cache1
                       /\ ~f
       IN  /\ cache' = cache1
           /\ cache_expiry' = IF written THEN WriteExpiry(k) ELSE cache_expiry
           /\ stored_at' = IF written THEN Put(stored_at, k, now) ELSE stored_at
           /\ resp' =
                IF raised = 0
                THEN Response("fresh", 200, FALSE, o.doc, k, f, u, 1, o.kind)
                ELSE IF fallback /\ ~TransformRaises(proxy, cache1[k])
                THEN Response("stale", 200, TRUE, cache1[k], k, f, u, 1, o.kind)
                ELSE Response("error", IF fallback THEN 502 ELSE raised, FALSE,
                              NoDoc, k, f, u, 1, o.kind)
    /\ pending' = NoReq
    /\ UNCHANGED <<config, now, keyed, rlVars, fetch, health, inflight,
                   aggregate, preload>>

\* the upstream call of the suspended handler ends in outcome o
ProxyReturn(o) == ProxyFinish(o) /\ UNCHANGED assembly

\* the next sub-call of the suspended handler of a sports proxy is over:
\* it succeeded (ok), or it failed with status st, which get_division_teams
\* passes over and which otherwise leaves the try block as HTTPException
SubCall(ok, st) ==
    /\ proxy \in AssemblingProxies
    /\ pending # NoReq
    /\ assembly.step < Len(SubCalls(proxy))
    /\ LET i == assembly.step + 1
       IN  IF ok \/ Swallowed(SubCalls(proxy)[i])
           THEN /\ assembly' =
                     [step |-> i,
                      failed |-> IF ok THEN assembly.failed
                                 ELSE assembly.failed \cup {i}]
                /\ UNCHANGED <<config, cacheVars, keyed, rlVars, fetch,
                               health, inflight, aggregate, preload>>
           ELSE /\ ProxyFinish([kind |-> "fail", doc |-> NoDoc, status |-> st])
                /\ assembly' = NoAssembly

\* all sub-calls are over: the result is stored and returned
AssembleFinish(v) ==
    /\ proxy \in AssemblingProxies
    /\ pending # NoReq
    /\ assembly.step = Len(SubCalls(proxy))
    /\ ProxyFinish([kind |-> "ok",
                    doc |-> Assembled(pending.up, v, assembly.failed),
                    status |-> 200])
    /\ assembly' = NoAssembly

\* get_timezone up to its upstream await
TimezoneLookup(r) ==
    /\ proxy = "timezone"
    /\ pending = NoReq
    /\ LET rej == Rejects(proxy, r, DEFAULT_API_KEY)
           k   == CacheKey(proxy, r, DEFAULT_API_KEY)
           f   == ForceRefresh(proxy, r)
           u   == UpstreamParams(proxy, r, DEFAULT_API_KEY)
       IN  IF rej # 0
           THEN /\ resp' = Response("reject", rej, FALSE, NoDoc, <<>>, f, u,
                                    0, "none")
                /\ UNCHANGED pending
           ELSE IF ~f /\ k \in DOMAIN cache /\ ~should_bypass_cache(cache[k])
           THEN /\ resp' = Response("hit", 200, TRUE, cache[k], k, f, u, 0,
                                    "none")
                /\ UNCHANGED pending
           ELSE /\ resp' = NoResp
                /\ pending' = Pending(k, f, u)
    /\ UNCHANGED <<config, now, cache, cache_expiry, stored_at, keyed, fetch,
                   sideVars>>

\* an admitted request r reaches get_timezone
TimezoneReceive(r) == TimezoneLookup(r) /\ UNCHANGED rlVars

\* get_timezone from the return of fetch_with_retry
TimezoneReturn(o) ==
    /\ proxy = "timezone"
    /\ pending # NoReq
    /\ LET k == pending.key
           f == pending.force
           u == pending.up
       IN  IF o.kind = "fail"
           THEN /\ resp' = Response("error", o.status, FALSE, NoDoc, k, f, u,
                                    1, o.kind)
                /\ UNCHANGED <<cache, stored_at>>
           ELSE /\ cache' = Put(cache, k, o.doc)
                /\ stored_at' = Put(stored_at, k, now)
                /\ resp' = Response("fresh", 200, FALSE, o.doc, k, f, u, 1,
                                    o.kind)
    /\ pending' = NoReq
    /\ UNCHANGED <<config, now, cache_expiry, keyed, rlVars, fetch, sideVars>>

\* the clock advances
Tick ==
    /\ now < MaxTime
    /\ now' = now + 1
    /\ UNCHANGED <<config, cache, cache_expiry, stored_at, pending, resp,
                   keyed, rlVars, fetch, sideVars>>

\* the process has started and served nothing yet
Idle ==
    /\ now = 0
    /\ cache = <<>>
    /\ cache_expiry = <<>>
    /\ stored_at = <<>>
    /\ pending = NoReq
    /\ resp = NoResp
    /\ keyed = <<>>
    /\ hits = [c \in Clients |-> 0]
    /\ admission = NoAdmission
    /\ fetch = NoFetch
    /\ health = NoHealth
    /\ inflight = <<>>
    /\ assembly = NoAssembly
    /\ aggregate = NoAggregate
    /\ preload = NoPreload

\* The timezone proxy has no cache lifetime setting (its cache is always
\* on and its entries carry no expiry): CACHE_LIFE_MINUTES is 0 there and
\* unread.  The requests of this specification are the admitted ones; the
\* limiter has a specification of its own (SpecRL).
Init ==
    /\ proxy \in Proxies
    /\ CACHE_LIFE_MINUTES \in
          IF proxy = "timezone" THEN {0} ELSE 0..MaxCacheLife
    /\ DEFAULT_API_KEY \in IF proxy \in ApiKeyProxies THEN {0, 1} ELSE {0}
    /\ REQUESTS_PER_MINUTE = 1
    /\ Idle

Next ==
    \/ \E r \in Requests(proxy) : ProxyReceive(r)
    \/ \E o \in FetchOutcomes(proxy, pending.up) : ProxyReturn(o)
    \/ \E r \in Requests(proxy) : TimezoneReceive(r)
    \/ \E o \in FetchOutcomes(proxy, pending.up) : TimezoneReturn(o)
    \/ Tick

Spec == Init /\ [][Next]_vars

(* --------------------- the cache key as a function -------------------- *)
\* One computation of the cache key of an accepted request, as the handler
\* computes it; keyed keeps the last two.
KeyOf(r) ==
    /\ Rejects(proxy, r, DEFAULT_API_KEY) = 0
    /\ keyed' = <<[req |-> r, key |-> CacheKey(proxy, r, DEFAULT_API_KEY)]>>
                 \o (IF keyed = <<>> THEN <<>> ELSE <<keyed[1]>>)
    /\ UNCHANGED <<config, cacheVars, rlVars, fetch, sideVars>>

NextKey == \E r \in AllRequests(proxy) : KeyOf(r)

\* the key does not read the cache lifetime: one lifetime per proxy
InitKey == Init /\ CACHE_LIFE_MINUTES = 0

SpecKey == InitKey /\ [][NextKey]_vars

(* ------------------- the limiter as a state machine ------------------- *)
InitRL ==
    /\ proxy \in Proxies
    /\ CACHE_LIFE_MINUTES = 0
    /\ DEFAULT_API_KEY = 0
    /\ REQUESTS_PER_MINUTE \in 1..MaxLimit
    /\ Idle

NextRL ==
    \/ \E c \in Clients, d \in Details : Arrive(c, d)
    \/ WindowReset

SpecRL == InitRL /\ [][NextRL]_vars

(* ---------------------- the retry loops as a machine ------------------ *)
\* one proxy that calls fetch_data, and the timezone proxy
InitFetch ==
    /\ InitRL
    /\ REQUESTS_PER_MINUTE = 1
    /\ proxy \in {"twelvedata", "timezone"}

NextFetch ==
    \/ /\ fetch.state = "idle"
       /\ \E m \in 0..MaxRetries, delay \in 0..MaxDelay, script \in Scripts :
             FetchStart(m, delay, script)
    \/ \E ra \in RetryAfters : fetch_data(ra)
    \/ \E ra \in RetryAfters : fetch_with_retry(ra)

SpecFetch == InitFetch /\ [][NextFetch]_vars

\* The event loop resumes the coroutine of a call whenever its await is
\* over, and every await of the loops is: the client's timeout ends an
\* invocation, asyncio.sleep ends after its delay.
SpecFetchLive ==
    /\ InitFetch
    /\ [][NextFetch]_vars
    /\ WF_vars(\E ra \in RetryAfters : fetch_data(ra))
    /\ WF_vars(\E ra \in RetryAfters : fetch_with_retry(ra))

(* ------------------ the handlers with the health route --------------- *)
\* every proxy, with caching on and a default key
InitHealth ==
    /\ Init
    /\ proxy \in TTLProxies => CACHE_LIFE_MINUTES = MaxCacheLife
    /\ proxy \in ApiKeyProxies => DEFAULT_API_KEY = 1

NextHealth == Next \/ Health

SpecHealth == InitHealth /\ [][NextHealth]_vars

(* ----------------- the health aggregator's service ------------------- *)
\* the process runs healthcheck.py, which has no cache and no settings
InitAggregate ==
    /\ proxy = "healthcheck"
    /\ CACHE_LIFE_MINUTES = 0
    /\ DEFAULT_API_KEY = 0
    /\ REQUESTS_PER_MINUTE = 1
    /\ Idle

NextAggregate ==
    \/ HealthStart
    \/ \E a \in HealthAnswers : Poll(a)
    \/ HealthRespond

SpecAggregate == InitAggregate /\ [][NextAggregate]_vars

(* ------------------------ the preload script's run -------------------- *)
\* the process runs scripts/preload_timezones.py
InitPreload ==
    /\ proxy = "preload_timezones"
    /\ CACHE_LIFE_MINUTES = 0
    /\ DEFAULT_API_KEY = 0
    /\ REQUESTS_PER_MINUTE = 1
    /\ Idle

NextPreload ==
    \/ \E m \in 1..MaxPreloadRetries, rows0 \in [Timezones -> {NoRow, 1}] :
          PreloadStart(m, rows0)
    \/ \E a \in PreloadAnswers, v \in 1..NumVersions : fetch_timezone(a, v)
    \/ \E ok \in BOOLEAN : process_timezone(ok)

SpecPreload == InitPreload /\ [][NextPreload]_vars

\* asyncio.run drives main to its end: every await of the script is over
\* after its timeout (TIMEOUT) or its delay
SpecPreloadLive ==
    /\ InitPreload
    /\ [][NextPreload]_vars
    /\ WF_vars(\E a \in PreloadAnswers, v \in 1..NumVersions :
                  fetch_timezone(a, v))
    /\ WF_vars(\E ok \in BOOLEAN : process_timezone(ok))

(* --------------- the proxies that take an API key --------------------- *)
\* Caching is on and a default key is configured: the key a request can
\* present, or another one.
InitApiKey ==
    /\ proxy \in ApiKeyProxies
    /\ CACHE_LIFE_MINUTES = MaxCacheLife
    /\ DEFAULT_API_KEY \in {NumKeys, NumKeys + 1}
    /\ REQUESTS_PER_MINUTE = 1
    /\ Idle

\* the requests for one symbol, location or station, with and without key
ApiKeyRequests(px) ==
    {r \in Requests(px) : r.p \in {0, 1} /\ r.force \in {"", "true"}}

NextApiKey ==
    \/ \E r \in ApiKeyRequests(proxy) : ProxyReceive(r)
    \/ \E o \in FetchOutcomes(proxy, pending.up) : ProxyReturn(o)
    \/ Tick

SpecApiKey == InitApiKey /\ [][NextApiKey]_vars

(* ------------------ the sports proxies' team names -------------------- *)
\* The teamName parameter: the form in which it is written and the team it
\* names.  The teams 1..NumVals stand for those of mlb_teams.json and
\* nfl_teams.json, each listed with its id, its aliases and its name (for
\* mlbdata the name, written without spaces, is among the aliases);
\* NumVals + 1 is a number or a word that names none of them.
TeamForms == {"id", "alias", "ALIAS", "name"}

TeamIdentifiers == [form : TeamForms, team : 1..(NumVals + 1)]

IsTeam(t) == t \in 1..NumVals

\* get_team_id: the team id, or 0 where it raises HTTPException(400).
\* mlbdata returns int(team_identifier) for every string of digits and
\* looks the lower-cased rest up in TEAM_IDS; nfldata returns an id found
\* in TEAM_IDS.values() and compares the lower-cased rest with every
\* team's id, aliases and name.
get_team_id(px, ident) ==
    IF px = "mlbdata" /\ ident.form = "id" THEN ident.team
    ELSE IF IsTeam(ident.team) THEN ident.team
    ELSE 0

\* GET /proxy?teamName=<ident>[&force=f] as the handler sees it once
\* get_team_id is over; a teamName on which get_team_id raises is answered
\* as a missing one is, with 400 before the cache is read
TeamRequest(px, ident, f) ==
    [method |-> "GET", p |-> get_team_id(px, ident), q |-> 0, force |-> f,
     bforce |-> 0, order |-> 1]

TeamReceive(ident, f) == ProxyReceive(TeamRequest(proxy, ident, f))

InitTeam ==
    /\ InitHealth
    /\ proxy \in AssemblingProxies

NextTeam ==
    \/ \E ident \in TeamIdentifiers, f \in {"", "true"} : TeamReceive(ident, f)
    \/ \E o \in FetchOutcomes(proxy, pending.up) : ProxyReturn(o)
    \/ Tick

SpecTeam == InitTeam /\ [][NextTeam]_vars

(* ------------- the sports proxies, sub-call by sub-call --------------- *)
InitAssemble ==
    /\ InitHealth
    /\ proxy \in AssemblingProxies

NextAssemble ==
    \/ \E r \in Requests(proxy) : ProxyReceive(r)
    \/ \E ok \in BOOLEAN, st \in FailStatuses : SubCall(ok, st)
    \/ \E v \in 1..NumVersions : AssembleFinish(v)
    \/ Tick

SpecAssemble == InitAssemble /\ [][NextAssemble]_vars

(* ------------------------ concurrent handlers ------------------------- *)
\* The event loop runs one handler at a time and switches at an await.  A
\* handler suspended at its upstream call stays in pending, the one the
\* loop turns to next, or waits in inflight while other requests are
\* received and other handlers resume.
Yield ==
    /\ pending # NoReq
    /\ Len(inflight) < MaxInflight
    /\ inflight' = Append(inflight, pending)
    /\ pending' = NoReq
    /\ UNCHANGED <<config, now, cache, cache_expiry, stored_at, resp, keyed,
                   rlVars, fetch, health, toolVars>>

\* the upstream call of the i-th waiting handler is the next to complete
Resume(i) ==
    /\ pending = NoReq
    /\ i \in 1..Len(inflight)
    /\ pending' = inflight[i]
    /\ inflight' = [j \in 1..(Len(inflight) - 1) |->
                      IF j < i THEN inflight[j] ELSE inflight[j + 1]]
    /\ UNCHANGED <<config, now, cache, cache_expiry, stored_at, resp, keyed,
                   rlVars, fetch, health, toolVars>>

\* One TTL proxy that fetches one document, one that assembles its
\* document from several upstream calls, and the timezone proxy; caching
\* is on and requests carry their parameters.
ConcProxies == {"twelvedata", "mlbdata", "timezone"}

ConcRequests(px) ==
    {r \in Requests(px) : r.method = "GET" /\ r.p # 0 /\ r.force # "TRUE"}

InitConc ==
    /\ InitHealth
    /\ proxy \in ConcProxies

NextConc ==
    \/ \E r \in ConcRequests(proxy) : ProxyReceive(r)
    \/ \E o \in FetchOutcomes(proxy, pending.up) : ProxyReturn(o)
    \/ \E r \in ConcRequests(proxy) : TimezoneReceive(r)
    \/ \E o \in FetchOutcomes(proxy, pending.up) : TimezoneReturn(o)
    \/ Yield
    \/ \E i \in 1..MaxInflight : Resume(i)
    \/ Tick

SpecConc == InitConc /\ [][NextConc]_vars

(* ------------------------- the response envelope --------------------- *)
\* The envelope transform_data (the seven TTL proxies, "proxy-info") and
\* create_response (the timezone proxy: status_code beside data,
\* cachedResponse inside it) put on a 200 response at time t.  The only
\* input besides the document is the flag cached.
proxy_info(px, cached, t) ==
    IF px = "timezone"
    THEN [cachedResponse |-> cached, status_code |-> 200]
    ELSE [cachedResponse |-> cached, status_code |-> 200, timestamp |-> t]

\* nextTimeZoneUpdate of create_response, as the set of values the field
\* can take for document d: no value when d has no DST (the field is
\* absent), the instant of ChangeTime(d) when that is a UTC instant.  A
\* BadTime stands for the strings should_bypass_cache cannot compare with
\* the clock: one that parse_iso_datetime rejects (the field is null,
\* NoUpdate) and one that carries no UTC offset, which create_response
\* parses and hands on as it is (OffsetlessUpdate, a moment the clock has
\* passed).
NoUpdate == -2
OffsetlessUpdate == -3

nextTimeZoneUpdate(d) ==
    IF ~d.dst.has THEN {}
    ELSE IF ChangeTime(d) = BadTime THEN {NoUpdate, OffsetlessUpdate}
    ELSE {ChangeTime(d)}

\* the "error" field of the JSON body get_timezone builds from an
\* HTTPException of the given status code
ErrorLabel(status_code) ==
    IF status_code = 502 THEN "api_error" ELSE "client_error"

\* what the client receives of response rs: status, document, envelope
ClientSees(rs) ==
    [status |-> rs.status, doc |-> rs.doc,
     info |-> IF rs.status = 200 THEN proxy_info(proxy, rs.cached, now)
              ELSE <<>>]

(* ------------------- the route: limiter, then handler ----------------- *)
\* The decorator of the limiter wraps the route's function: it calls the
\* function for an admitted request only.
EndpointRuns(c) == hits[c] < REQUESTS_PER_MINUTE

\* a route whose function is not behind the limiter's decorator
RouteUnlimited(c, d, r) ==
    /\ Limit(c, d)
    /\ ProxyLookup(r) \/ TimezoneLookup(r)

\* proxy_request / twelvedata_proxy / get_timezone behind its decorators: a
\* request r of client c passes the limiter and, admitted, enters the
\* handler up to the handler's upstream await.
Route(c, d, r) ==
    /\ Limit(c, d)
    /\ IF EndpointRuns(c)
       THEN ProxyLookup(r) \/ TimezoneLookup(r)
       ELSE UNCHANGED <<config, cacheVars, keyed, fetch, sideVars>>

\* The limiter reads the client's address and nothing else of a request:
\* the route is driven with GET requests.
RouteRequests(px) == {r \in Requests(px) : r.method = "GET"}

\* One proxy per way of building the route: twelvedata decorates its own
\* function, parqet goes through handle_request, timezone has a limiter of
\* its own.  Caching is on, a default key is set, the limit is one.
RouteProxies == {"twelvedata", "parqet", "timezone"}

InitRoute ==
    /\ proxy \in RouteProxies
    /\ CACHE_LIFE_MINUTES = IF proxy = "timezone" THEN 0 ELSE MaxCacheLife
    /\ DEFAULT_API_KEY = IF proxy \in ApiKeyProxies THEN 1 ELSE 0
    /\ REQUESTS_PER_MINUTE = 1
    /\ Idle

NextRoute ==
    \/ \E c \in Clients, d \in Details, r \in RouteRequests(proxy) :
          Route(c, d, r)
    \/ \E o \in FetchOutcomes(proxy, pending.up) : ProxyReturn(o)
    \/ \E o \in FetchOutcomes(proxy, pending.up) : TimezoneReturn(o)
    \/ WindowReset

SpecRoute == InitRoute /\ [][NextRoute]_vars

(* ============================== claims ================================ *)
\* the handler takes request r (either family of proxies)
Handle(r) == ProxyReceive(r) \/ TimezoneReceive(r)

\* the handler resumes from its upstream call with outcome o
Return(o) == ProxyReturn(o) \/ TimezoneReturn(o)

\* r has every parameter its handler needs
Accepted(r) ==
    Rejects(proxy, r, DEFAULT_API_KEY) = 0 /\ ~KeyError(proxy, r)

\* the DST transition that applies to document d lies at or before the clock
TransitionReached(d) ==
    /\ d.dst.has
    /\ IF d.dst.active
       THEN d.dst.end # BadTime /\ now >= d.dst.end
       ELSE d.dst.start # BadTime /\ now >= d.dst.start

\* key k has an entry that has not expired: the clock is before its stored
\* expiry (TTL proxies, caching enabled) or before its DST transition
\* (timezone proxy)
HasFreshEntry(k) ==
    /\ k \in DOMAIN cache
    /\ IF proxy = "timezone"
       THEN ~TransitionReached(cache[k])
       ELSE CACHE_LIFE_MINUTES > 0 /\ now < Get(cache_expiry, k, DatetimeMin)

\* the upstream call of the handler ends in an HTTPException inside its try
\* block: the fetch raised, or transform_data found the answer empty
UpstreamFailed(o) ==
    o.kind = "fail" \/ (o.kind = "empty" /\ TransformRaises(proxy, o.doc))

\* caching is switched on (the timezone proxy has no switch)
CachingOn == proxy = "timezone" \/ CACHE_LIFE_MINUTES > 0

\* C1: a request without force whose key has a fresh entry is answered from
\* the cache with cachedResponse=true and starts no upstream call.
C1_FreshEntryIsServed ==
    [][\A r \in Requests(proxy) :
          (/\ Handle(r)
           /\ Accepted(r)
           /\ ~ForceRefresh(proxy, r)
           /\ HasFreshEntry(CacheKey(proxy, r, DEFAULT_API_KEY)))
          => (/\ pending' = NoReq
              /\ resp'.status = 200
              /\ resp'.cached
              /\ resp'.calls = 0
              /\ resp'.doc = cache[CacheKey(proxy, r, DEFAULT_API_KEY)])]_vars

\* C2: when the upstream call of a request without force fails and an entry
\* of any age exists for its key, the response is the stored payload with
\* cachedResponse=true, in the timezone proxy as in the others.
C2_FailureServesStoredPayload ==
    [][\A o \in FetchOutcomes(proxy, pending.up) :
          (/\ Return(o)
           /\ o.kind = "fail"
           /\ ~pending.force
           /\ pending.key \in DOMAIN cache)
          => (/\ resp'.status = 200
              /\ resp'.cached
              /\ resp'.doc = cache[pending.key])]_vars

\* C3: when the upstream call of a request with force=true fails, the
\* response is the error, never a payload, and the entry of the key (payload
\* and expiry) stays as it was.
C3_ForcedFailureIsSurfaced ==
    [][\A o \in FetchOutcomes(proxy, pending.up) :
          (/\ Return(o)
           /\ UpstreamFailed(o)
           /\ pending.force)
          => (/\ resp'.kind = "error"
              /\ resp'.status >= 400
              /\ ~resp'.cached
              /\ resp'.doc = NoDoc
              /\ cache' = cache
              /\ cache_expiry' = cache_expiry)]_vars

\* C4: with caching enabled a request with force=true always calls the
\* upstream, fresh entry or not; when that call succeeds with payload P' the
\* response carries P' with cachedResponse=false and the entry becomes P'
\* with expiry now+TTL; the next request for the key, without force and
\* within the TTL, gets P' with cachedResponse=true and no upstream call.
C4_ForcedRefreshReplacesEntry ==
    [][/\ \A r \in Requests(proxy) :
            (Handle(r) /\ Accepted(r) /\ ForceRefresh(proxy, r) /\ CachingOn)
            => pending' = Pending(CacheKey(proxy, r, DEFAULT_API_KEY), TRUE,
                                  UpstreamParams(proxy, r, DEFAULT_API_KEY))
       /\ \A o \in FetchOutcomes(proxy, pending.up) :
            (Return(o) /\ pending.force /\ ~UpstreamFailed(o) /\ CachingOn)
            => (/\ resp'.status = 200
                /\ ~resp'.cached
                /\ resp'.doc = o.doc
                /\ pending.key \in DOMAIN cache'
                /\ cache'[pending.key] = o.doc
                /\ proxy \in TTLProxies =>
                      Get(cache_expiry', pending.key, DatetimeMin)
                         = now + CACHE_LIFE_MINUTES)
       /\ \A r \in Requests(proxy) :
            (/\ Handle(r) /\ Accepted(r) /\ ~ForceRefresh(proxy, r)
             /\ CachingOn
             /\ resp.kind = "fresh" /\ resp.force
             /\ resp.key = CacheKey(proxy, r, DEFAULT_API_KEY)
             /\ IF proxy = "timezone" THEN ~TransitionReached(resp.doc)
                ELSE now < Get(stored_at, resp.key, 0) + CACHE_LIFE_MINUTES)
            => (/\ pending' = NoReq
                /\ resp'.status = 200
                /\ resp'.cached
                /\ resp'.calls = 0
                /\ resp'.doc = resp.doc)]_vars

\* two requests that differ at most in the force flag (query or body)
SameButForce(r1, r2) ==
    /\ r1.method = r2.method /\ r1.p = r2.p /\ r1.q = r2.q
    /\ r1.order = r2.order

\* two requests that differ at most in the order of their parameters
SameButOrder(r1, r2) ==
    /\ r1.method = r2.method /\ r1.p = r2.p /\ r1.q = r2.q
    /\ r1.force = r2.force /\ r1.bforce = r2.bforce

C6_KeyCoversUpstreamParams ==
    (resp.kind \in {"hit", "stale"} /\ Truthy(resp.doc))
    => resp.doc.src = resp.up

\* a step in which the handler answers a request without an upstream call
AnswersAtOnce == pending = NoReq /\ pending' = NoReq /\ now' = now

\* C7: with a cache lifetime of 0 the payload and expiry maps stay empty,
\* every request that passes validation calls the upstream, no response
\* carries cachedResponse=true and a failure is never answered from stored
\* data.
C7_LifetimeZeroNeverCaches ==
    [][(CACHE_LIFE_MINUTES = 0 /\ proxy \in TTLProxies)
       => (/\ cache' = <<>>
           /\ cache_expiry' = <<>>
           /\ ~resp'.cached
           /\ resp'.kind \notin {"hit", "stale"}
           /\ resp'.outcome = "fail" => resp'.kind = "error"
           /\ pending = NoReq =>
                \A r \in Requests(proxy) :
                   (Accepted(r) /\ Handle(r))
                   => pending' = Pending(
                         CacheKey(proxy, r, DEFAULT_API_KEY),
                         ForceRefresh(proxy, r),
                         UpstreamParams(proxy, r, DEFAULT_API_KEY)))]_vars

\* with lifetime 0 and the clock advanced, a request without force whose
\* upstream call failed has been answered with the error, the maps empty
C7_Witness ==
    /\ CACHE_LIFE_MINUTES = 0 /\ proxy \in TTLProxies
    /\ resp.kind = "error" /\ ~resp.force /\ resp.outcome = "fail"
    /\ cache = <<>>
    /\ now > 0

\* the lifetime against which the age of a timezone entry is measured: the
\* proxy sets none, so any lifetime the clock can outlast serves
TimezoneTTL == MaxTime

\* the freshness rule: now < storedAt + ttl, and now before the domain
\* expiry (the DST transition) when the payload has one
FreshByRule(k) ==
    /\ k \in DOMAIN stored_at
    /\ now < stored_at[k] + (IF proxy = "timezone" THEN TimezoneTTL
                             ELSE CACHE_LIFE_MINUTES)
    /\ ~TransitionReached(cache[k])

\* C8: a response is a cache hit without an upstream attempt only if the
\* entry is fresh by the rule now < storedAt + ttl AND (no domain expiry OR
\* now < domain expiry), in the timezone proxy as in the others.
C8_HitOnlyIfFreshByRule ==
    [][(AnswersAtOnce /\ resp'.kind = "hit") => FreshByRule(resp'.key)]_vars

C10_LimitPerClientWithRetryAfter ==
    [][/\ \A c \in Clients, d \in Details :
            Arrive(c, d)
            => (/\ IF hits[c] < REQUESTS_PER_MINUTE
                   THEN admission'.status = 0
                   ELSE admission'.status = 429 /\ admission'.retry_after > 0
                /\ \A o \in Clients \ {c} : hits'[o] = hits[o])
       /\ WindowReset => \A c \in Clients : hits'[c] = 0]_vars

\* C11: every denial by the limiter, in the proxies of create_app and in the
\* timezone proxy, is answered 429 with error "rate_limit_exceeded" in the
\* body and a Retry-After header, and never 500, whether the detail of the
\* limiter's exception is a string or an object.
C11_DenialIs429WithRetryAfter ==
    (admission # NoAdmission /\ admission.before >= REQUESTS_PER_MINUTE)
    => (/\ admission.status = 429
        /\ admission.error = "rate_limit_exceeded"
        /\ admission.retry_after > 0)

\* C12: a request the limiter denies performs no cache read, no cache
\* write and no upstream call: the cache, the suspended upstream call and
\* the handler's last response are as they were, and the handler runs for
\* admitted requests only.
C12_DeniedRequestTouchesNothing ==
    [][\A c \in Clients :
          (hits[c] >= REQUESTS_PER_MINUTE
           /\ \E d \in Details, r \in RouteRequests(proxy) : Route(c, d, r))
          => (/\ admission'.status # 0
              /\ UNCHANGED <<cache, cache_expiry, stored_at, pending, resp>>)
      ]_vars

\* a request is denied while another request's upstream call is in flight
\* and the cache holds an entry
C12_Witness ==
    /\ admission # NoAdmission
    /\ admission.status # 0
    /\ cache # <<>>
    /\ pending # NoReq

(* ----------------------- claims on the retry loops -------------------- *)
\* a call has begun and has ended, by return or by raise
Finished == fetch.state \in {"returned", "raised"}

\* the answer to the i-th upstream invocation of the call
Answer(i) == fetch.script[i]

\* a 502 response or a network error
TransientFailure(a) == a \in {502, RequestError}

\* the upstream fails transiently k times and then succeeds
FailsThenSucceeds(k) ==
    /\ \A i \in 1..k : TransientFailure(Answer(i))
    /\ Answer(k + 1) = 200

\* C13: when the upstream fails transiently (502 or network error) k times,
\* k at most the retry count m, and then succeeds, fetch_data and
\* fetch_with_retry return the payload after exactly k+1 upstream
\* invocations; for k = m that is m+1.
C13_SuccessAfterTransientFailures ==
    \A k \in 0..fetch.m :
        (Finished /\ FailsThenSucceeds(k))
        => (/\ fetch.state = "returned"
            /\ fetch.status = 200
            /\ fetch.calls = k + 1)

\* a call with retries configured has returned the payload on its last
\* attempt, after m transient failures
C13_Witness ==
    /\ fetch.state = "returned"
    /\ fetch.m >= MAX_RETRIES
    /\ fetch.calls = fetch.m + 1
    /\ FailsThenSucceeds(fetch.m)

\* network errors, upstream 429 and the 5xx statuses
TransientClass(a) == a \in {RequestError, 429, 502, 503}

\* C14: fetch_data retries, while retries remain, network errors, upstream
\* 429 and the upstream's 5xx statuses, not only 502: a call that ends on
\* such a failure has used all its max_retries + 1 attempts.
C14_RetriesWholeTransientClass ==
    (fetch.fn = "fetch_data" /\ fetch.state = "raised"
     /\ TransientClass(Answer(fetch.calls)))
    => fetch.calls = fetch.m + 1

\* a 4xx client error that is not the rate limit
ClientError(a) == a = 404

\* C15: an upstream invocation answered with a non-retryable 4xx is the
\* last of its call, whatever the retry count: the call raises an error
\* with the upstream's status, and when the first answer is the 4xx there
\* has been one invocation and no sleep.
C15_ClientErrorIsNotRetried ==
    \A i \in 1..fetch.calls :
        ClientError(Answer(i))
        => (/\ fetch.state = "raised"
            /\ fetch.status = Answer(i)
            /\ fetch.calls = i
            /\ i = 1 => fetch.sleeps = 0)

\* a call with retries configured has ended on a 404 to its first invocation
C15_Witness ==
    /\ fetch.state = "raised"
    /\ fetch.m >= MAX_RETRIES
    /\ fetch.calls = 1
    /\ ClientError(Answer(1))

\* C16: when all max_retries + 1 attempts of a call fail, the call raises
\* an error with the status of the final attempt's response, or 502 when
\* the final attempt failed with a network error; it does not return.
C16_ExhaustionRaisesLastFailure ==
    (Finished /\ fetch.calls = fetch.m + 1 /\ Answer(fetch.calls) # 200)
    => (/\ fetch.state = "raised"
        /\ fetch.status = IF Answer(fetch.calls) = RequestError THEN 502
                          ELSE Answer(fetch.calls))

\* a call has used its retries and has ended on a status other than 502
C16_Witness ==
    /\ fetch.state = "raised"
    /\ fetch.m >= MAX_RETRIES
    /\ fetch.calls = fetch.m + 1
    /\ Answer(fetch.calls) \in {404, 503}

\* C20: a call that ends on a failure of the transient class (network
\* error, timeout, upstream 5xx, upstream 429) raises 502, which the handler
\* without a fallback answers with; only a non-retryable client error is
\* raised with the upstream's own status.
C20_TransientFailureAnswered502 ==
    fetch.state = "raised"
    => fetch.status = IF ClientError(Answer(fetch.calls))
                      THEN Answer(fetch.calls)
                      ELSE 502

(* ------------------- claims on the handlers' failures ----------------- *)
\* C17: when the upstream call ends in a permanent 4xx client error, the
\* response carries that status, also when an entry exists for the key and
\* the request has no force: the stored payload is not returned in its
\* place.
C17_ClientErrorNotMaskedByCache ==
    [][\A o \in FetchOutcomes(proxy, pending.up) :
          (/\ pending # NoReq
           /\ o.kind = "fail"
           /\ o.status = 404
           /\ Return(o))
          => (/\ resp'.status = 404
              /\ resp'.doc = NoDoc)]_vars

\* r lacks a parameter its handler needs
Malformed(r) ==
    Rejects(proxy, r, DEFAULT_API_KEY) # 0 \/ KeyError(proxy, r)

\* C18: a request with missing or malformed parameters, GET or POST, in
\* every proxy, ends in 400 and performs no cache write and no upstream
\* call; this covers a tempest POST whose body lacks station_id.
C18_MalformedRequestIs400 ==
    [][\A r \in Requests(proxy) :
          (/\ pending = NoReq
           /\ Malformed(r)
           /\ Handle(r))
          => (/\ resp'.status = 400
              /\ resp'.calls = 0
              /\ UNCHANGED <<cache, cache_expiry, pending>>)]_vars

\* C19: when the upstream call fails and the request's key has no entry,
\* the response is an error response and nothing is stored.
C19_FailureWithoutEntryStoresNothing ==
    [][\A o \in FetchOutcomes(proxy, pending.up) :
          (/\ pending # NoReq
           /\ pending.key \notin DOMAIN cache
           /\ UpstreamFailed(o)
           /\ Return(o))
          => (/\ resp'.kind = "error"
              /\ resp'.status >= 400
              /\ cache' = cache
              /\ cache_expiry' = cache_expiry)]_vars

(* ---------------------- claims on the envelope ------------------------ *)
\* C21: a response of the stale fallback carries a warning marker besides
\* cachedResponse=true: what the client receives differs from what a cache
\* hit on the same entry gives.
C21_StaleResponseIsMarked ==
    resp.kind = "stale"
    => (\/ "warning" \in DOMAIN ClientSees(resp).info
        \/ ClientSees(resp) # ClientSees([resp EXCEPT !.kind = "hit"]))

\* C22: every 200 response of every proxy carries cachedResponse (a
\* boolean), status code 200 and a timestamp, on the fresh, the hit and the
\* stale path, the timezone proxy included.
C22_EnvelopeOnEvery200 ==
    resp.status = 200
    => (/\ {"cachedResponse", "status_code", "timestamp"}
              \subseteq DOMAIN ClientSees(resp).info
        /\ ClientSees(resp).info.cachedResponse \in BOOLEAN
        /\ ClientSees(resp).info.status_code = 200)

(* ------------------------ claims on the force flag -------------------- *)
\* C23: on the proxies that accept GET and POST, a POST whose JSON body
\* holds force=true acts as a GET with force=true in the query string does:
\* the cache read is bypassed (the upstream is called) and the request runs
\* with the stale fallback off.
C23_BodyForceActsAsQueryForce ==
    [][\A r \in Requests(proxy) :
          (/\ pending = NoReq
           /\ r.method = "POST"
           /\ r.bforce = 1
           /\ Accepted(r)
           /\ Handle(r))
          => (/\ pending' # NoReq
              /\ pending'.force)]_vars

(* ---------------------- claims on the health route -------------------- *)
\* C24: every proxy process answers its liveness endpoint with
\* {status: "OK"}, in every state of the cache and of the upstream.
C24_HealthAnswersOK ==
    health # NoHealth => (health.status = 200 /\ health.body = "OK")

(* --------------------- claims on concurrent handlers ------------------ *)
\* the upstream calls in flight: the suspended handlers
InFlight == inflight \o (IF pending = NoReq THEN <<>> ELSE <<pending>>)

C30_OneCallInFlightPerKey ==
    \A i, j \in 1..Len(InFlight) :
        InFlight[i].key = InFlight[j].key => i = j

(* ------------------------ claims on cache entries --------------------- *)
\* the entry of key k, payload and expiry, is the same before and after
SameEntry(k) ==
    /\ k \in DOMAIN cache
    /\ k \in DOMAIN cache'
    /\ cache'[k] = cache[k]
    /\ Get(cache_expiry', k, DatetimeMin) = Get(cache_expiry, k, DatetimeMin)

\* C26: an entry changes only through a successful upstream fetch for its
\* own key: hits, stale fallbacks, failed upstream calls and rejections
\* leave every entry as it was, entries of other keys are not touched and
\* no entry is removed.
C26_EntriesChangeOnlyBySuccessfulFetch ==
    [][/\ DOMAIN cache \subseteq DOMAIN cache'
       /\ \A k \in DOMAIN cache' :
            \/ SameEntry(k)
            \/ /\ pending # NoReq
               /\ k = pending.key
               /\ \E o \in FetchOutcomes(proxy, pending.up) :
                     /\ ~UpstreamFailed(o)
                     /\ Return(o)
                     /\ cache'[k] = o.doc]_vars

\* C27: an empty upstream response is a failure: when it arrives for a key
\* that holds a non-empty entry, the entry stays as it was and a request
\* without force is answered with the stored payload, not with 502.
C27_EmptyResponseKeepsEntry ==
    [][\A o \in FetchOutcomes(proxy, pending.up) :
          (/\ pending # NoReq
           /\ o.kind = "empty"
           /\ pending.key \in DOMAIN cache
           /\ Truthy(cache[pending.key])
           /\ Return(o))
          => (/\ SameEntry(pending.key)
              /\ ~pending.force
                    => (/\ resp'.status = 200
                        /\ resp'.cached
                        /\ resp'.doc = cache[pending.key]))]_vars

(* ------------------------ claims on the backoff ----------------------- *)
\* C28: when the failed response that is retried carries a Retry-After
\* value, fetch_data waits that many seconds before the next attempt, not
\* retry_delay.
C28_RetryAfterOverridesDelay ==
    (fetch.fn = "fetch_data" /\ fetch.attempt > 0 /\ fetch.retry_after > 0)
    => fetch.waited = fetch.retry_after

\* C29: every retry of fetch_data and of fetch_with_retry is preceded by a
\* wait of the retry delay, after a network error as after a 502: there
\* are as many sleeps as retries and the last one lasted the retry delay.
C29_EveryRetryWaits ==
    /\ fetch.sleeps = fetch.attempt
    /\ fetch.attempt > 0 => fetch.waited = fetch.retry_delay

(* ---------------------- claims on the timezone proxy ------------------ *)
\* C31: nextTimeZoneUpdate of a timezone response is the transition that
\* should_bypass_cache uses; so every response served from the cache that
\* carries a non-null nextTimeZoneUpdate has that instant strictly after
\* the time it is served.
C31_CachedNextUpdateIsAhead ==
    [][(/\ proxy = "timezone"
        /\ pending = NoReq
        /\ \E r \in Requests(proxy) : TimezoneReceive(r)
        /\ resp'.status = 200
        /\ resp'.cached)
       => \A v \in nextTimeZoneUpdate(resp'.doc) :
             v # NoUpdate => v > now]_vars

\* C32: the timezone proxy labels an error "client_error" only when the
\* upstream answered with a 4xx status; every transient upstream failure
\* (network error, 5xx) is labelled "api_error".
C32_ErrorLabelFollowsClass ==
    (proxy = "timezone" /\ fetch.state = "raised")
    => LET a == fetch.script[fetch.calls]
       IN  /\ ErrorLabel(fetch.status) = "client_error" => a \in 400..499
           /\ (a = RequestError \/ a >= 500)
              => ErrorLabel(fetch.status) = "api_error"

(* ----------------- claims on the ends of the retry loops -------------- *)
\* C33: every way an upstream call can fail inside fetch_data (HTTP error
\* status, network error, timeout, a 2xx body that is not JSON) leaves
\* fetch_data as an HTTPException, the exception the handlers' fallback
\* catches: a call that has ended on a failed invocation has raised one.
C33_EveryFailureIsHTTPException ==
    (/\ fetch.fn = "fetch_data"
     /\ fetch.state \notin {"idle", "running"}
     /\ Answer(fetch.calls) # 200)
    => fetch.state = "raised"

\* the call has left its loop: it has returned or an exception has left it
Ended == fetch.state \in {"returned", "raised", "error"}

\* C34: fetch_data and fetch_with_retry always terminate.  A call makes at
\* most max_retries + 1 upstream invocations and then returns or raises;
\* every iteration ends in a return, a raise or a retry with a larger
\* attempt number; the loop is never left at its end (the statement after
\* it is not reached); with max_retries = 0 there is exactly one
\* invocation.
C34_RetryLoopsTerminate ==
    /\ [](/\ fetch.calls <= fetch.m + 1
          /\ fetch.state = "running" => fetch.attempt <= fetch.m
          /\ (Ended /\ fetch.m = 0) => fetch.calls = 1)
    /\ [][fetch.state = "running"
          => \/ Ended'
             \/ fetch'.state = "running" /\ fetch'.attempt > fetch.attempt]_fetch
    /\ (fetch.state = "running") ~> Ended

\* a call has ended after as many invocations as its retry count allows,
\* having slept before each retry
C34_Witness ==
    /\ Ended
    /\ fetch.m = MaxRetries
    /\ fetch.calls = MaxRetries + 1
    /\ fetch.sleeps = MaxRetries

(* ---------------------- claims on the sports proxies ------------------ *)
\* C35: a sports proxy writes the cache entry of a key only when every
\* sub-call of the assembly succeeded: no document with a part missing is
\* stored, and a failed sub-call leaves the entry as it was.
C35_EntryOnlyFromCompleteAssembly ==
    [][cache' # cache
       => /\ assembly.step = Len(SubCalls(proxy))
          /\ assembly.failed = {}
          /\ \A k \in DOMAIN cache' : cache'[k].failed = {}]_vars

(* -------------------------- claims on API keys ------------------------ *)
\* request r with the configured default key written into it
WithDefaultKey(r) == [r EXCEPT !.q = DEFAULT_API_KEY]

\* C36: in the proxies that take an API key, a payload fetched with one
\* key is never returned, as a cache hit or as a stale fallback, to a
\* request that presents another key; and a request without a key is
\* handled as the request that presents the configured default key: same
\* verdict of the parameter checks, same cache key, same upstream request.
C36_PayloadsStayWithTheirKey ==
    /\ (resp.kind \in {"hit", "stale"} /\ Truthy(resp.doc))
       => resp.doc.src[2] = resp.up[2]
    /\ \A r \in Requests(proxy) :
          r.q = 0
          => /\ Rejects(proxy, r, DEFAULT_API_KEY)
                = Rejects(proxy, WithDefaultKey(r), DEFAULT_API_KEY)
             /\ CacheKey(proxy, r, DEFAULT_API_KEY)
                = CacheKey(proxy, WithDefaultKey(r), DEFAULT_API_KEY)
             /\ UpstreamParams(proxy, r, DEFAULT_API_KEY)
                = UpstreamParams(proxy, WithDefaultKey(r), DEFAULT_API_KEY)

\* a request is served from the cache while the cache also holds a payload
\* fetched for the same parameters with another key
C36_Witness ==
    /\ resp.kind \in {"hit", "stale"}
    /\ Truthy(resp.doc)
    /\ \E k \in DOMAIN cache :
          /\ Truthy(cache[k])
          /\ cache[k].src[1] = resp.up[1]
          /\ cache[k].src[2] # resp.up[2]

\* C37: in mlbdata and nfldata two requests that name the same team by
\* different identifiers (id, alias in any letter case, name) get the same
\* cache key; a teamName that names no team is answered with 400 before
\* any cache or upstream access.
C37_TeamNamesResolveOrReject ==
    [][/\ \A i1, i2 \in TeamIdentifiers :
             (IsTeam(i1.team) /\ i1.team = i2.team)
             => CacheKey(proxy, TeamRequest(proxy, i1, ""), DEFAULT_API_KEY)
                = CacheKey(proxy, TeamRequest(proxy, i2, ""), DEFAULT_API_KEY)
       /\ \A ident \in TeamIdentifiers, f \in {"", "true"} :
             (~IsTeam(ident.team) /\ pending = NoReq /\ TeamReceive(ident, f))
             => (resp'.status = 400 /\ pending' = NoReq)]_vars

(* --------------------- claims on the health aggregator ---------------- *)
\* the names results has an entry for
Polled == {aggregate.results[i][1] : i \in 1..Len(aggregate.results)}

Configured ==
    {PROXY_HEALTH_ENDPOINTS[i] : i \in 1..Len(PROXY_HEALTH_ENDPOINTS)}

C39_PreloadIsBounded ==
    /\ [](preload.state # "idle"
          => /\ \A tz \in Timezones :
                   /\ preload.requests[tz] <= preload.max_retries
                   /\ preload.counted[tz] <= 1
             /\ preload.success_count <= NumZones
             /\ preload.state = "done"
                => \A tz \in Timezones : preload.requests[tz] >= 1)
    /\ (preload.state = "running") ~> (preload.state = "done")

\* C40: a row of a timezone is written only after a successful fetch of
\* that timezone, a timezone is counted as a success only when its fetch
\* and its save both succeeded, and a failed fetch or a failed save leaves
\* the row stored before unchanged.
C40_RowsFollowSuccess ==
    [][preload.state = "running"
       => LET tz == preload.i
          IN  /\ \A z \in Timezones \ {tz} :
                    preload'.rows[z] = preload.rows[z]
              /\ preload'.rows # preload.rows
                 => /\ preload.phase = "save"
                    /\ preload'.rows[tz] = preload.data
                    /\ preload'.counted[tz] = preload.counted[tz] + 1
              /\ preload'.success_count # preload.success_count
                 => /\ preload.phase = "save"
                    /\ preload'.rows[tz] = preload.data
                    /\ preload'.success_count = preload.success_count + 1
              /\ preload'.counted[tz] = preload.counted[tz]
                 => preload'.rows[tz] = preload.rows[tz]]_preload

\* the script is over: one timezone failed in all its attempts and has
\* kept the row it had, another one has a new row
C40_Witness ==
    /\ preload.state = "done"
    /\ \E tz \in Timezones :
          /\ preload.counted[tz] = 0
          /\ preload.requests[tz] > 0
          /\ preload.before[tz] # NoRow
          /\ preload.rows[tz] = preload.before[tz]
    /\ \E tz \in Timezones :
          /\ preload.counted[tz] = 1
          /\ preload.rows[tz] # preload.before[tz]

====
